---- MODULE Spec2Model ----
(***************************************************************************)
(* Model of RM/mysql/t_user.py: the `user` table operations of the         *)
(* ReportManager (pop, set_status, reset_status, __contains__) over the    *)
(* tables user, current and history.                                       *)
(***************************************************************************)
EXTENDS Integers, Sequences, FiniteSets, TLC

\* ------------------------------------------------------------------ bounds
MaxCount == 2          \* largest count passed to pop
MaxPages == 1          \* largest user.pages
MaxTime == 2           \* last clock tick
TicksPerDay == 2       \* clock ticks per calendar day

\* ------------------------------------------------------------- the tables
\* Rows of `user` in the order a scan of the table enumerates them.
UserIds == <<"u1", "u2", "u3">>
Users == {UserIds[i] : i \in 1..Len(UserIds)}
\* An id that is no row of `user`.
UnknownId == "zz"

VARIABLES
    user,           \* user table: id -> [available, role, status, status_since, pages]
    current,        \* current table: set of rows [reviewerid, start, report]
    history,        \* history table: sequence of [reviewerid, end], index = id
    now,            \* NOW(), in clock ticks
    op,             \* the last step: "init", "pop", "contains" (set_status passed its
                    \* asserts), "set_status", "reset_status", "tick", "retire", "assign"
    args,           \* its arguments
    raised,         \* TRUE iff it raised AssertionError
    queried,        \* TRUE iff it opened a Connection and executed a statement
    selectResults,  \* the successive values of pop's variable selectResults
    ret,            \* the list pop returned
    updated,        \* ids of the user rows its UPDATE matched
    last,           \* the last call, kept while the clock ticks:
                    \* [op, args, at, was, again] (at: the NOW() it read; was: the
                    \* status its user_id had; again: the ticks since the same call
                    \* was made, if it was the call before)
    picks,          \* callers of pop: caller -> [pc, top, args], pc being "idle",
                    \* "picked" (pop returned top) or "assigned" (its row is in current)
    pending         \* the set_status call between its two transactions, if any:
                    \* <<>> or <<its arguments>>

vars == <<user, current, history, now, op, args, raised, queried, selectResults, ret,
         updated, last, picks, pending>>

\* ---------------------------------------------------------------- helpers
Min(S) == CHOOSE m \in S : \A x \in S : m <= x

Pos(u) == CHOOSE i \in 1..Len(UserIds) : UserIds[i] = u

\* the status of the row of id user_id, if there is one
NoStatus == -1
StatusOf(user_id) == IF user_id \in Users THEN user[user_id].status ELSE NoStatus

\* the ticks since the call before, when that was the same call of name with
\* the same arguments a
NoRepeat == -1
Again(name, a) == IF last.op = name /\ last.args = a THEN now - last.at ELSE NoRepeat

\* Slice as s[0:count + 1]
Slice_oneMore(s, count) ==
    LET n == Len(s)
        c == count + 1
        stop == IF c < 0 THEN (IF n + c < 0 THEN 0 ELSE n + c)
                ELSE (IF c > n THEN n ELSE c)
    IN  SubSeq(s, 1, stop)

\* Python slice s[0:count]
Slice(s, count) ==
    LET n == Len(s)
        stop == IF count < 0 THEN (IF n + count < 0 THEN 0 ELSE n + count)
                ELSE (IF count > n THEN n ELSE count)
    IN  SubSeq(s, 1, stop)

\* DATEDIFF as the whole days elapsed from b to a
DATEDIFF_elapsed(a, b) == (a - b) \div TicksPerDay

\* MySQL DATEDIFF(a, b): difference of the calendar dates, time parts ignored
DATEDIFF(a, b) == (a \div TicksPerDay) - (b \div TicksPerDay)

\* ------------------------------------------------ the SELECT of pop (154-171)
\* WHERE available = 1 AND role = 1
Eligible == {u \in Users : user[u].available /\ user[u].role = 1}

\* SELECT reviewerid, end FROM history ORDER BY id DESC LIMIT 1
HasLatest == history /= <<>>
\* latest_history as the oldest record
latest_history_oldest == history[1]

latest_history == history[Len(history)]

\* FlaggedIds with `current.start >= latest_history.end`
FlaggedIds_notStrict ==
    IF HasLatest
       /\ ~(\E c \in current : c.start >= latest_history.end /\ c.reviewerid /= "")
    THEN {latest_history.reviewerid}
    ELSE {}

\* the scalar sub-query of the IF: latest_history.reviewerid unless a row of
\* current with a non-empty reviewerid started after latest_history.end;
\* no row gives NULL, modelled as the empty set of ids.
FlaggedIds ==
    IF HasLatest
       /\ ~(\E c \in current : c.start > latest_history.end /\ c.reviewerid /= "")
    THEN {latest_history.reviewerid}
    ELSE {}

\* IF(id = (...), -1, status) AS status
status_col(u) == IF u \in FlaggedIds THEN -1 ELSE user[u].status

\* min_pages over every row of user
min_pages_allUsers == Min({user[u].pages : u \in Users})

\* SELECT MIN(pages) FROM user WHERE user.available = 1 AND user.role = 1
min_pages == Min({user[u].pages : u \in Eligible})

\* pages - (SELECT MIN(pages) ...) AS pages_diff
pages_diff(u) == user[u].pages - min_pages

\* IFNULL(current, 0) over the LEFT JOIN with the per-reviewer COUNT(1)
current_col(u) == Cardinality({c \in current : c.reviewerid = u})

\* one fetched tuple (id, name, phone, role, status, pages_diff, current);
\* item[0] is Row(u)[1] and item[4] is Row(u)[5]
Row(u) == <<u, "name", "phone", user[u].role, status_col(u), pages_diff(u), current_col(u)>>

\* KeyLeq for ORDER BY pages_diff, current
KeyLeq_pagesFirst(a, b) == a[6] < b[6] \/ (a[6] = b[6] /\ a[7] <= b[7])

\* KeyLeq for ORDER BY current alone
KeyLeq_currentOnly(a, b) == a[7] <= b[7]

\* ORDER BY current, pages_diff
KeyLeq(a, b) == a[7] < b[7] \/ (a[7] = b[7] /\ a[6] <= b[6])

Sorted(s) == \A i, j \in 1..Len(s) : i < j => KeyLeq(s[i], s[j])

\* every list of the eligible rows, each once
Arrangements ==
    LET n == Cardinality(Eligible)
    IN  {[i \in 1..n |-> Row(f[i])] :
            f \in {g \in [1..n -> Eligible] : \A i, j \in 1..n : i /= j => g[i] /= g[j]}}

\* cursor.fetchall(): the eligible rows in ORDER BY order; the order among
\* rows with equal (current, pages_diff) is whatever the server produces.
FetchAll == {s \in Arrangements : Sorted(s)}

\* -------------------------------------------------------------- arguments
\* count: an int, or a value of another type
Counts == [type : {"int"}, val : (-1)..(MaxCount + 1)] \cup {[type |-> "str", val |-> 1]}
ExcludeIds == Users \cup {UnknownId}
\* excludes: None or a list, or a non-empty value of another type
Excludes == [type : {"list"},
             val : {{}} \cup {{x} : x \in ExcludeIds} \cup {{UserIds[1], UserIds[2]}}]
              \cup {[type |-> "tuple", val |-> {UserIds[1]}]}

Bools == {TRUE, FALSE}
PopArgs == [count : Counts, excludes : Excludes, urgent : Bools, hide_busy : Bools]

\* ------------------------------------------------------------ pop (127-185)
\* the two asserts of lines 146-149, after `if not excludes: excludes = []`
PopAsserts(a) ==
    /\ a.count.type = "int"
    /\ (a.excludes.val = {} \/ a.excludes.type = "list")

\* Exclusion testing item[1], the name, instead of item[0]
Exclusion_byName(s, excludes) == SelectSeq(s, LAMBDA item : item[2] \notin excludes)

\* line 176: [item for item in selectResults if item[0] not in excludes]
Exclusion(s, excludes) == SelectSeq(s, LAMBDA item : item[1] \notin excludes)

\* Urgency putting the status = 0 items last
Urgency_othersFirst(s, urgent) ==
    IF urgent
    THEN SelectSeq(s, LAMBDA item : item[5] /= 0) \o SelectSeq(s, LAMBDA item : item[5] = 0)
    ELSE s

\* Urgency as the docstring of pop words it: the status = 1 and 2 items are excluded
Urgency_excludes(s, urgent) ==
    IF urgent
    THEN SelectSeq(s, LAMBDA item : item[5] = 0)
    ELSE s

\* lines 177-179: the status = 0 items, then the others
Urgency(s, urgent) ==
    IF urgent
    THEN SelectSeq(s, LAMBDA item : item[5] = 0) \o SelectSeq(s, LAMBDA item : item[5] /= 0)
    ELSE s

\* HideBusy hiding status = 2 only
HideBusy_onlyVeryBusy(s, hide_busy) ==
    IF hide_busy
    THEN SelectSeq(s, LAMBDA item : item[5] /= 2)
    ELSE s

\* lines 180-182: keep status = 0 and status = 1
HideBusy(s, hide_busy) ==
    IF hide_busy
    THEN SelectSeq(s, LAMBDA item : item[5] = 0 \/ item[5] = 1)
    ELSE s

\* pop that also marks the reviewers it returns as busy
pop_reserving(a) ==
    /\ op' = "pop"
    /\ args' = a
    /\ last' = [op |-> "pop", args |-> a, at |-> now, was |-> NoStatus, again |-> NoRepeat]
    /\ IF ~PopAsserts(a)
       THEN /\ raised' = TRUE
            /\ queried' = FALSE
            /\ selectResults' = <<>>
            /\ ret' = <<>>
            /\ user' = user
       ELSE \E fetched \in FetchAll :
              LET s1 == Exclusion(fetched, a.excludes.val)
                  s2 == Urgency(s1, a.urgent)
                  s3 == HideBusy(s2, a.hide_busy)
                  r == Slice(s3, a.count.val)
              IN  /\ raised' = FALSE
                  /\ queried' = TRUE
                  /\ selectResults' = <<fetched, s1, s2, s3>>
                  /\ ret' = r
                  /\ user' = [u \in Users |->
                                IF \E i \in 1..Len(r) : r[i][1] = u
                                THEN [user[u] EXCEPT !.status = 1, !.status_since = now]
                                ELSE user[u]]
    /\ updated' = {}
    /\ UNCHANGED <<current, history, now>>

pop(a) ==
    /\ op' = "pop"
    /\ args' = a
    /\ last' = [op |-> "pop", args |-> a, at |-> now, was |-> NoStatus, again |-> NoRepeat]
    /\ IF ~PopAsserts(a)
       THEN /\ raised' = TRUE
            /\ queried' = FALSE
            /\ selectResults' = <<>>
            /\ ret' = <<>>
       ELSE \E fetched \in FetchAll :
              LET s1 == Exclusion(fetched, a.excludes.val)
                  s2 == Urgency(s1, a.urgent)
                  s3 == HideBusy(s2, a.hide_busy)
              IN  /\ raised' = FALSE
                  /\ queried' = TRUE
                  /\ selectResults' = <<fetched, s1, s2, s3>>
                  /\ ret' = Slice(s3, a.count.val)
    /\ updated' = {}
    /\ UNCHANGED <<user, current, history, now>>

\* ---------------------------------------------------- __contains__ (91-124)
\* contains without `available = 1`
contains_anyRow(user_id, only_reviewer) ==
    /\ user_id \in Users
    /\ (only_reviewer => user[user_id].role = 1)

\* SELECT 1 FROM user WHERE available = 1 [AND role = 1] AND id = %s
contains(user_id, only_reviewer) ==
    /\ user_id \in Users
    /\ user[user_id].available
    /\ (only_reviewer => user[user_id].role = 1)

\* ---------------------------------------------------- set_status (188-211)
StatusInputs == (-1)..3
SetStatusArgs == [user_id : Users \cup {UnknownId}, status : StatusInputs]

\* SetStatusAsserts with `status <= 2`
SetStatusAsserts_upperOnly(a) ==
    /\ contains(a.user_id, FALSE)
    /\ a.status <= 2

\* SetStatusAsserts without the check of status
SetStatusAsserts_noRange(a) ==
    /\ contains(a.user_id, FALSE)

SetStatusAsserts(a) ==
    /\ contains(a.user_id, FALSE)
    /\ a.status \in {0, 1, 2}

\* lines 200-201, the first transaction of the call: __contains__ opens a
\* Connection, runs its SELECT, commits and closes; then the status is
\* checked. A call that fails either assert ends here, raising. A call that
\* passes both holds nothing in the database and has its UPDATE still to run.
set_status_check(a) ==
    /\ pending = <<>>
    /\ args' = a
    /\ queried' = TRUE
    /\ selectResults' = <<>>
    /\ ret' = <<>>
    /\ updated' = {}
    /\ IF ~SetStatusAsserts(a)
       THEN /\ op' = "set_status"
            /\ raised' = TRUE
            /\ last' = [op |-> "set_status", args |-> a, at |-> now,
                        was |-> StatusOf(a.user_id), again |-> Again("set_status", a)]
            /\ pending' = <<>>
       ELSE /\ op' = "contains"
            /\ raised' = FALSE
            /\ last' = last
            /\ pending' = <<a>>
    /\ UNCHANGED <<user, current, history, now>>

\* the UPDATE that leaves status_since alone when the status is the one the
\* user has
set_status_update_keepsSince(a) ==
    /\ pending = <<a>>
    /\ pending' = <<>>
    /\ op' = "set_status"
    /\ args' = a
    /\ last' = [op |-> "set_status", args |-> a, at |-> now, was |-> StatusOf(a.user_id),
                again |-> Again("set_status", a)]
    /\ raised' = FALSE
    /\ queried' = TRUE
    /\ selectResults' = <<>>
    /\ ret' = <<>>
    /\ updated' = {u \in Users : u = a.user_id}
    /\ user' = [u \in Users |->
                  IF u = a.user_id /\ user[u].status /= a.status
                  THEN [user[u] EXCEPT !.status = a.status, !.status_since = now]
                  ELSE user[u]]
    /\ UNCHANGED <<current, history, now>>

\* lines 203-211, the second transaction of the call:
\* UPDATE user SET status = %s, status_since = NOW() WHERE id = %s
\* (the row of that id, whatever its available is by now)
set_status_update(a) ==
    /\ pending = <<a>>
    /\ pending' = <<>>
    /\ op' = "set_status"
    /\ args' = a
    /\ last' = [op |-> "set_status", args |-> a, at |-> now, was |-> StatusOf(a.user_id),
                again |-> Again("set_status", a)]
    /\ raised' = FALSE
    /\ queried' = TRUE
    /\ selectResults' = <<>>
    /\ ret' = <<>>
    /\ updated' = {u \in Users : u = a.user_id}
    /\ user' = [u \in Users |->
                  IF u = a.user_id
                  THEN [user[u] EXCEPT !.status = a.status, !.status_since = now]
                  ELSE user[u]]
    /\ UNCHANGED <<current, history, now>>

\* a step of set_status(user_id, status)
set_status(a) == set_status_check(a) \/ set_status_update(a)

\* another client of the database retires the user u (available = 0)
Retire(u) ==
    /\ user[u].available
    /\ user' = [user EXCEPT ![u].available = FALSE]
    /\ op' = "retire"
    /\ args' = <<u>>
    /\ raised' = FALSE
    /\ queried' = FALSE
    /\ selectResults' = <<>>
    /\ ret' = <<>>
    /\ updated' = {}
    /\ UNCHANGED <<current, history, now, last, pending>>

\* -------------------------------------------------- reset_status (214-235)
DaysInputs == (-1)..(MaxTime \div TicksPerDay + 1)
ResetArgs == [days : DaysInputs]

\* Stale with `DATEDIFF(NOW(), status_since) > %s`
Stale_strict(u, days) == user[u].status /= 0 /\ DATEDIFF(now, user[u].status_since) > days

\* Stale without `status != 0`
Stale_anyStatus(u, days) == DATEDIFF(now, user[u].status_since) >= days

\* WHERE status != 0 AND DATEDIFF(NOW(), status_since) >= %s
Stale(u, days) == user[u].status /= 0 /\ DATEDIFF(now, user[u].status_since) >= days

reset_status(a) ==
    /\ op' = "reset_status"
    /\ args' = a
    /\ last' = [op |-> "reset_status", args |-> a, at |-> now, was |-> NoStatus,
                again |-> Again("reset_status", a)]
    /\ raised' = FALSE
    /\ queried' = TRUE
    /\ selectResults' = <<>>
    /\ ret' = <<>>
    /\ updated' = {u \in Users : Stale(u, a.days)}
    /\ user' = [u \in Users |->
                  IF Stale(u, a.days)
                  THEN [user[u] EXCEPT !.status = 0, !.status_since = now]
                  ELSE user[u]]
    /\ UNCHANGED <<current, history, now>>

\* the clock read by NOW() advances
Tick ==
    /\ now < MaxTime
    /\ now' = now + 1
    /\ op' = "tick"
    /\ args' = <<>>
    /\ raised' = FALSE
    /\ queried' = FALSE
    /\ selectResults' = <<>>
    /\ ret' = <<>>
    /\ updated' = {}
    /\ UNCHANGED <<user, current, history, last>>

\* ---------------------------------------------------------- initial states
NoCall ==
    /\ op = "init"
    /\ args = <<>>
    /\ raised = FALSE
    /\ queried = FALSE
    /\ selectResults = <<>>
    /\ ret = <<>>
    /\ updated = {}
    /\ last = [op |-> "init", args |-> <<>>, at |-> 0, was |-> NoStatus, again |-> NoRepeat]
    /\ picks = <<>>
    /\ pending = <<>>

\* rows of current and history; start and end in clock ticks; report is the
\* key of the row, NoCaller for the rows that were there from the start
NoCaller == 0
CurrentRows == [reviewerid : Users \cup {""}, start : 1..2, report : {NoCaller}]
HistoryRows == [reviewerid : Users, end : 0..1]
Currents(n) == {c \in SUBSET CurrentRows : Cardinality(c) <= n}
\* history is an append-only log: a later record ends later
Histories ==
    {<<>>} \cup {<<h>> : h \in HistoryRows}
           \cup {p \in HistoryRows \X HistoryRows : p[1].end < p[2].end}

EligibleRow(st, pg) ==
    [available |-> TRUE, role |-> 1, status |-> st, status_since |-> 0, pages |-> pg]

\* calls that neither exclude nor truncate
PlainArgs ==
    {a \in PopArgs : a.excludes = [type |-> "list", val |-> {}]
                     /\ a.count = [type |-> "int", val |-> MaxCount + 1]}

\* directories that differ in workload: pages, eligibility, rows of current
InitWorkload ==
    /\ user \in [Users -> [available : Bools, role : {0, 1}, status : {0},
                           status_since : {0}, pages : 0..MaxPages]]
    /\ current \in {c \in Currents(2) : \A r \in c : r.reviewerid /= ""}
    /\ history = <<>>
    /\ args \in PlainArgs

\* directories that differ in the history and in the starts of current
InitAntiRepeat ==
    /\ user \in {[u \in Users |-> EligibleRow(IF u = UserIds[1] THEN st ELSE 0, 0)] :
                    st \in {0, 1, 2}}
    /\ current \in Currents(2)
    /\ history \in Histories
    /\ args \in PlainArgs

\* directories that differ in status and in who is flagged, under every call
InitStatus ==
    /\ user \in {[u \in Users |-> EligibleRow(st[u], 0)] : st \in [Users -> {0, 1, 2}]}
    /\ current \in {c \in Currents(1) : \A r \in c : r.start = 2}
    /\ history \in {h \in Histories : Len(h) <= 1 /\ (h /= <<>> => h[1].end = 1)}
    /\ args \in PopArgs

\* the pool of three reviewers: the first idle with no report and the least
\* pages, the second idle with two pages more, the third busy with one report;
\* the history is empty or its one record names the first reviewer
InitExample ==
    /\ user = [u \in Users |->
                 EligibleRow(IF u = UserIds[3] THEN 1 ELSE 0, IF u = UserIds[2] THEN 2 ELSE 0)]
    /\ current = {[reviewerid |-> UserIds[3], start |-> 1, report |-> NoCaller]}
    /\ history \in {<<>>, <<[reviewerid |-> UserIds[1], end |-> 1]>>}
    /\ args \in {a \in PopArgs : a.excludes = [type |-> "list", val |-> {}]
                                 /\ a.count = [type |-> "int", val |-> 2]}

\* the call about to be made is drawn with the directory
InitPop ==
    /\ InitWorkload \/ InitAntiRepeat \/ InitStatus \/ InitExample
    /\ now = 2
    /\ op = "init"
    /\ raised = FALSE
    /\ queried = FALSE
    /\ selectResults = <<>>
    /\ ret = <<>>
    /\ updated = {}
    /\ last = [op |-> "init", args |-> <<>>, at |-> 0, was |-> NoStatus, again |-> NoRepeat]
    /\ picks = <<>>
    /\ pending = <<>>

\* pop is called, and called again, with these arguments
NextPop == pop(args) /\ UNCHANGED <<picks, pending>>

SpecPop == InitPop /\ [][NextPop]_vars

\* one user of each kind: a reviewer, an ordinary user, a retired reviewer
Kinds == <<[available |-> TRUE, role |-> 1], [available |-> TRUE, role |-> 0],
           [available |-> FALSE, role |-> 1]>>

Init ==
    /\ user \in {[u \in Users |->
                    [available |-> Kinds[Pos(u)].available, role |-> Kinds[Pos(u)].role,
                     status |-> st[u], status_since |-> 0, pages |-> 0]] :
                 st \in [Users -> {0, 1, 2}]}
    /\ current = {}
    /\ history = <<>>
    /\ now = 0
    /\ NoCall

Next ==
    \/ \E a \in PlainArgs : pop(a) /\ UNCHANGED <<picks, pending>>
    \/ \E a \in SetStatusArgs : set_status(a) /\ UNCHANGED picks
    \/ \E a \in ResetArgs : reset_status(a) /\ UNCHANGED <<picks, pending>>
    \/ Tick /\ UNCHANGED <<picks, pending>>

Spec == Init /\ [][Next]_vars

\* set_status while other clients of the database retire users
NextRetire ==
    \/ \E a \in SetStatusArgs : set_status(a) /\ UNCHANGED picks
    \/ \E u \in Users : Retire(u) /\ UNCHANGED picks
    \/ Tick /\ UNCHANGED <<picks, pending>>

SpecRetire == Init /\ [][NextRetire]_vars

\* ------------------------------------------- two callers booking a reviewer
\* Each caller calls pop for one reviewer and then records an assignment of
\* its report to the first reviewer of the list in the table current.
Callers == {1, 2}
NoPick == ""
BookArgs ==
    {a \in PopArgs : a.excludes = [type |-> "list", val |-> {}]
                     /\ a.count = [type |-> "int", val |-> 1]
                     /\ ~a.urgent}

\* caller c calls pop and keeps the first reviewer of the list
Select(c) ==
    /\ picks[c].pc = "idle"
    /\ \E a \in BookArgs :
          /\ pop(a)
          /\ picks' = [picks EXCEPT ![c] =
                         IF ret' = <<>>
                         THEN [pc |-> "assigned", top |-> NoPick, args |-> a]
                         ELSE [pc |-> "picked", top |-> ret'[1][1], args |-> a]]

\* caller c inserts the row of its report into current
Assign(c) ==
    /\ picks[c].pc = "picked"
    /\ current' = current \cup
                    {[reviewerid |-> picks[c].top, start |-> now, report |-> c]}
    /\ picks' = [picks EXCEPT ![c].pc = "assigned"]
    /\ op' = "assign"
    /\ args' = <<c>>
    /\ raised' = FALSE
    /\ queried' = TRUE
    /\ selectResults' = <<>>
    /\ ret' = <<>>
    /\ updated' = {}
    /\ UNCHANGED <<user, history, now, last>>

InitBook ==
    /\ user \in {[u \in Users |-> EligibleRow(IF u = UserIds[1] THEN st ELSE 0, pg[u])] :
                    st \in {0, 2}, pg \in [Users -> 0..MaxPages]}
    /\ current \in {c \in Currents(1) : \A r \in c : r.reviewerid /= "" /\ r.start = 1}
    /\ history = <<>>
    /\ now = 2
    /\ op = "init"
    /\ args = <<>>
    /\ raised = FALSE
    /\ queried = FALSE
    /\ selectResults = <<>>
    /\ ret = <<>>
    /\ updated = {}
    /\ last = [op |-> "init", args |-> <<>>, at |-> 0, was |-> NoStatus, again |-> NoRepeat]
    /\ picks = [c \in Callers |-> [pc |-> "idle", top |-> NoPick, args |-> <<>>]]
    /\ pending = <<>>

NextBook == \E c \in Callers : (Select(c) \/ Assign(c)) /\ UNCHANGED pending

SpecBook == InitBook /\ [][NextBook]_vars

\* the periodic sweep: reset_status is run again and again with one
\* threshold while the clock advances
SweepDays == MaxTime \div TicksPerDay
Sweep == reset_status([days |-> SweepDays]) /\ UNCHANGED <<picks, pending>>

\* the calls that take, renew or give back a lease
LeaseArgs == {a \in SetStatusArgs : a.user_id \in Users /\ a.status \in {0, 1, 2}}

\* the lifecycle calls alone
NextSweep ==
    \/ \E a \in LeaseArgs : set_status(a) /\ UNCHANGED picks
    \/ \E a \in ResetArgs : reset_status(a) /\ UNCHANGED <<picks, pending>>
    \/ Tick /\ UNCHANGED <<picks, pending>>

SpecSweep ==
    Init /\ [][NextSweep]_vars /\ WF_vars(Tick /\ UNCHANGED <<picks, pending>>) /\ WF_vars(Sweep)

\* ================================================================== claims
\* the last call was a pop that returned a list
PopReturned == op = "pop" /\ ~raised
Ids(s) == {s[i][1] : i \in 1..Len(s)}
\* index of the row of id u in the list s
PosIn(s, u) == CHOOSE i \in 1..Len(s) : s[i][1] = u
\* the stages of the call
Fetched == selectResults[1]
AfterExclusion == selectResults[2]
AfterUrgency == selectResults[3]
AfterHiding == selectResults[4]

\* R is the reviewer of the history record of greatest id, and no row of
\* current with a non-empty reviewerid started strictly after its end
LatestUnanswered(R) ==
    /\ history /= <<>>
    /\ R = history[Len(history)].reviewerid
    /\ \A c \in current : c.reviewerid = "" \/ c.start <= history[Len(history)].end

\* C1 (anti-repeat): when R is the reviewer of the latest history record and
\* no assignment with a non-empty reviewer started strictly after its end,
\* pop with hide_busy never returns R, whatever count, excludes and urgent;
\* and nobody stands in for R: every returned id is an eligible reviewer, not
\* excluded, other than R, whose stored status is 0 or 1.
C1_AntiRepeat ==
    \A R \in Users :
        (PopReturned /\ args.hide_busy /\ LatestUnanswered(R)) =>
            /\ R \notin Ids(ret)
            /\ \A u \in Ids(ret) :
                  /\ u \in Eligible \ args.excludes.val
                  /\ user[u].status \in {0, 1}

\* C1 witness: R is idle and eligible, is not excluded, a row of current
\* started exactly at the end of the latest record, and others are returned
C1_Witness ==
    \E R \in Eligible :
        /\ PopReturned /\ args.hide_busy /\ LatestUnanswered(R)
        /\ user[R].status = 0
        /\ R \notin args.excludes.val
        /\ \E c \in current : c.reviewerid /= "" /\ c.start = history[Len(history)].end
        /\ ret /= <<>>

\* C2 (exclusion completeness): no returned id is in excludes; the excluded
\* ids that are no eligible reviewer change nothing (the same fetched rows
\* under excludes restricted to eligible ids give the same list); and the
\* exclusion keeps exactly the other rows, in their fetched order.
C2_ExclusionComplete ==
    PopReturned =>
        LET ex == args.excludes.val
        IN  /\ Ids(ret) \cap ex = {}
            /\ ret = Slice(HideBusy(Urgency(Exclusion(Fetched, ex \cap Eligible),
                                            args.urgent), args.hide_busy),
                           args.count.val)
            /\ Ids(AfterExclusion) = Ids(Fetched) \ ex
            /\ Len(AfterExclusion) = Cardinality(Ids(Fetched) \ ex)
            /\ \A i, j \in 1..Len(AfterExclusion) :
                  i < j => PosIn(Fetched, AfterExclusion[i][1])
                             < PosIn(Fetched, AfterExclusion[j][1])

\* C2 witness: an eligible reviewer is excluded and two others are returned
C2_Witness ==
    /\ PopReturned
    /\ args.excludes.val \cap Eligible /= {}
    /\ Len(ret) >= 2

\* the eligible reviewers that survive exclusion and busy hiding
Survivors ==
    {u \in Eligible \ args.excludes.val :
        args.hide_busy => (u \notin FlaggedIds /\ user[u].status \in {0, 1})}

\* C3 (truncation bound): for count >= 0 the returned list is the first
\* min(count, survivors) entries of the surviving list, so it is no longer
\* than count nor than the number of survivors, and it is empty for count = 0
\* and for an empty pool.
C3_TruncationBound ==
    (PopReturned /\ args.count.val >= 0) =>
        LET n == Cardinality(Survivors)
            k == IF args.count.val < n THEN args.count.val ELSE n
        IN  /\ Len(ret) = k
            /\ Len(ret) <= args.count.val
            /\ Len(AfterHiding) = n
            /\ \A i \in 1..Len(ret) : ret[i] = AfterHiding[i]

\* C3 witness: more reviewers survive than count >= 1 asks for
C3_Witness ==
    /\ PopReturned
    /\ args.count.val >= 1
    /\ Cardinality(Survivors) > args.count.val
    /\ Len(ret) = args.count.val

\* C4 (negative count): a pop with a negative count raises before any
\* statement is executed and returns no list.
C4_NegativeCountRejected ==
    (op = "pop" /\ args.count.type = "int" /\ args.count.val < 0) =>
        (raised /\ ~queried /\ ret = <<>>)

\* the status column the query computes for u, read off the tables
EffectiveStatus(u) ==
    IF LatestUnanswered(u) THEN -1 ELSE user[u].status

\* C5 (busy hiding): with hide_busy every returned reviewer has effective
\* status 0 or 1, so none with stored status 2 and none flagged by the latest
\* history record is returned, and the stage keeps every other reviewer that
\* was not excluded; without hide_busy the stage drops nobody.
C5_BusyHiding ==
    PopReturned =>
        /\ args.hide_busy =>
              /\ \A i \in 1..Len(ret) :
                    /\ ret[i][5] \in {0, 1}
                    /\ user[ret[i][1]].status /= 2
                    /\ ~LatestUnanswered(ret[i][1])
              /\ Ids(AfterHiding) =
                    {u \in Eligible \ args.excludes.val : EffectiveStatus(u) \in {0, 1}}
        /\ ~args.hide_busy =>
              /\ Ids(AfterHiding) = Eligible \ args.excludes.val
              /\ Len(AfterHiding) = Cardinality(Eligible \ args.excludes.val)

\* C5 witness: with hide_busy, a very busy reviewer and a flagged idle one,
\* neither excluded, are hidden and the remaining reviewer is returned
C5_Witness ==
    /\ PopReturned /\ args.hide_busy
    /\ \E u, v \in Eligible \ args.excludes.val :
          /\ user[u].status = 2 /\ ~LatestUnanswered(u)
          /\ user[v].status = 0 /\ LatestUnanswered(v)
    /\ Len(ret) = 1

\* C6 (urgency stability): with urgent, before truncation, every status-0
\* row precedes every other row, rows of the same group keep their order of
\* the fetched snapshot, a flagged reviewer is in the second group whatever
\* its stored status, and the stage outputs a permutation of its input.
C6_UrgencyStable ==
    (PopReturned /\ args.urgent) =>
        LET s == AfterUrgency
            Idle(u) == EffectiveStatus(u) = 0
        IN  /\ Len(s) = Len(AfterExclusion)
            /\ Ids(s) = Ids(AfterExclusion)
            /\ \A i \in 1..Len(s) : s[i] = Fetched[PosIn(Fetched, s[i][1])]
            /\ \A i, j \in 1..Len(s) :
                  i < j =>
                     /\ ~(~Idle(s[i][1]) /\ Idle(s[j][1]))
                     /\ (Idle(s[i][1]) = Idle(s[j][1]))
                           => PosIn(Fetched, s[i][1]) < PosIn(Fetched, s[j][1])

\* C6 witness: urgent moved an idle reviewer ahead of a busier one that was
\* fetched first, among three reviewers
C6_Witness ==
    /\ PopReturned /\ args.urgent
    /\ Len(AfterUrgency) = 3
    /\ AfterUrgency /= AfterExclusion
    /\ \E i \in 1..3 : user[AfterUrgency[i][1]].status = 0
                       /\ LatestUnanswered(AfterUrgency[i][1])

\* the sort key of u read off the tables: (current, pages_diff)
CurrentCount(u) == Cardinality({c \in current : c.reviewerid = u})
BacklogDiff(u) ==
    user[u].pages - Min({user[v].pages : v \in Eligible})
KeyBefore(u, v) ==
    \/ CurrentCount(u) < CurrentCount(v)
    \/ (CurrentCount(u) = CurrentCount(v) /\ BacklogDiff(u) < BacklogDiff(v))
KeyEqual(u, v) ==
    CurrentCount(u) = CurrentCount(v) /\ BacklogDiff(u) = BacklogDiff(v)

\* the snapshot lists every eligible reviewer once, ascending by current and
\* then by pages_diff
SnapshotSorted ==
    /\ Ids(Fetched) = Eligible
    /\ Len(Fetched) = Cardinality(Eligible)
    /\ \A i \in 1..Len(Fetched) :
          /\ Fetched[i][7] = CurrentCount(Fetched[i][1])
          /\ Fetched[i][6] = BacklogDiff(Fetched[i][1])
    /\ \A i, j \in 1..Len(Fetched) :
          i < j => ~KeyBefore(Fetched[j][1], Fetched[i][1])

\* C7 as claimed (ordering invariant): the snapshot is sorted by current,
\* then pages_diff, and reviewers with equal keys appear in the enumeration
\* order of the user table.
C7_StableOrder ==
    PopReturned =>
        /\ SnapshotSorted
        /\ \A i, j \in 1..Len(Fetched) :
              (i < j /\ KeyEqual(Fetched[i][1], Fetched[j][1]))
                 => Pos(Fetched[i][1]) < Pos(Fetched[j][1])

\* C7 as amended: the snapshot (and, without urgent, the returned list) is
\* sorted ascending by current, then pages_diff; the order among
\* reviewers with equal keys is not determined.
C7_Ordering ==
    PopReturned =>
        /\ SnapshotSorted
        /\ ~args.urgent =>
              \A i, j \in 1..Len(ret) : i < j => ~KeyBefore(ret[j][1], ret[i][1])

\* C7 witness: three reviewers fetched, the first before the others by its
\* key, the other two with equal keys and against the enumeration order
C7_Witness ==
    /\ PopReturned
    /\ Len(Fetched) = 3
    /\ KeyBefore(Fetched[1][1], Fetched[2][1])
    /\ Fetched[1][7] = Fetched[2][7]
    /\ KeyEqual(Fetched[2][1], Fetched[3][1])
    /\ Pos(Fetched[2][1]) > Pos(Fetched[3][1])

\* calendar days from tick b to tick a
CalendarDays(a, b) == (a \div TicksPerDay) - (b \div TicksPerDay)

\* C8 (timeout reclamation): reset_status(days) at time now sets status 0 and
\* status_since = now for every user whose status was not 0 and whose
\* status_since lies at least `days` calendar days before now, and leaves the
\* status and status_since of every other user as they were.
C8_TimeoutReclamation ==
    [][op' = "reset_status" =>
         \A u \in Users :
            IF user[u].status /= 0
               /\ CalendarDays(now, user[u].status_since) >= args'.days
            THEN /\ user'[u].status = 0
                 /\ user'[u].status_since = now'
                 /\ u \in updated'
            ELSE /\ user'[u].status = user[u].status
                 /\ user'[u].status_since = user[u].status_since
                 /\ u \notin updated']_vars

\* C8 witness: a sweep with days >= 1 reset one user and left another, not
\* idle but below the threshold, untouched
C8_Witness ==
    /\ op = "reset_status"
    /\ args.days >= 1
    /\ \E u \in updated : user[u].status = 0 /\ user[u].status_since = now
    /\ \E v \in Users \ updated :
          /\ user[v].status /= 0
          /\ CalendarDays(now, user[v].status_since) < args.days

\* C9 as claimed: set_status raises whenever user_id is not the id of an
\* available user with role = 1, and then updates no row.
C9_IneligibleRejected ==
    (op = "set_status"
       /\ ~(args.user_id \in Users
              /\ user[args.user_id].available /\ user[args.user_id].role = 1))
         => (raised /\ updated = {})

\* a step in which a call of set_status makes its lookup (lines 200-201)
Lookup == pending = <<>> /\ op' \in {"contains", "set_status"}
\* a step in which a call of set_status that passed them runs its UPDATE
Update == pending /= <<>> /\ op' = "set_status"

\* C9 as amended: set_status raises whenever, when it makes its lookup,
\* user_id is not the id of an available user, of whatever role, and then no
\* user row changes and no UPDATE follows; the lookup and the UPDATE are two
\* transactions, and a call that passed the lookup writes the row of that id
\* without raising, also when the user has been retired in between.
C9_UnavailableRejected ==
    [][/\ (Lookup /\ ~(args'.user_id \in Users /\ user[args'.user_id].available))
             => (op' = "set_status" /\ raised' /\ updated' = {} /\ user' = user
                   /\ pending' = <<>>)
       /\ (Lookup /\ contains(args'.user_id, FALSE) /\ args'.status \in {0, 1, 2})
             => (op' = "contains" /\ ~raised' /\ user' = user /\ pending' = <<args'>>)
       /\ Update
             => (~raised' /\ args' = pending[1] /\ updated' = {args'.user_id}
                   /\ user'[args'.user_id].status = args'.status
                   /\ user'[args'.user_id].status_since = now)]_vars

\* C9 witness: set_status with a valid status raised for the id of an
\* unavailable reviewer whose status is not the one asked for
C9_Witness ==
    /\ op = "set_status" /\ raised /\ updated = {}
    /\ args.status \in {0, 1, 2}
    /\ args.user_id \in Users
    /\ ~user[args.user_id].available
    /\ user[args.user_id].role = 1
    /\ user[args.user_id].status /= args.status

\* C9 witness, the two transactions apart: set_status did not raise and wrote
\* the status of a user that was retired after the lookup
C9_WitnessRetired ==
    /\ op = "set_status" /\ ~raised
    /\ updated = {args.user_id}
    /\ ~user[args.user_id].available
    /\ Kinds[Pos(args.user_id)].available
    /\ user[args.user_id].status = args.status
    /\ last.was /= args.status
    /\ user[args.user_id].status_since = now

\* no two eligible reviewers have the same (current, pages_diff)
NoTies == \A u, v \in Eligible : u /= v => ~KeyEqual(u, v)

\* C10 as claimed: pop changes no table, and a pop repeated with the same
\* arguments, nothing having changed in between, returns the same list.
C10_ReadOnlyRepeatable ==
    [][op' = "pop" =>
         /\ UNCHANGED <<user, current, history>>
         /\ (op = "pop" /\ args' = args) => ret' = ret]_vars

\* C10 as amended: pop changes no table; a pop repeated with the same
\* arguments returns a list of the same length, and the same list when no
\* two eligible reviewers have equal (current, pages_diff).
C10_ReadOnly ==
    [][op' = "pop" =>
         /\ UNCHANGED <<user, current, history>>
         /\ (op = "pop" /\ args' = args) =>
               /\ raised' = raised
               /\ Len(ret') = Len(ret)
               /\ NoTies => ret' = ret]_vars

\* C10 witness: a pop returned two reviewers out of a pool without ties
C10_Witness ==
    /\ PopReturned
    /\ NoTies
    /\ Cardinality(Eligible) = 3
    /\ Len(ret) >= 2

\* C14 (effective status): in the fetched snapshot the status column of an
\* eligible reviewer is -1 exactly when it is the reviewer of the history
\* record of greatest id and no row of current with a non-empty reviewerid
\* started strictly after that record's end (a row starting at the end, or
\* one with an empty reviewerid, leaves the flag); every other row carries
\* the stored status; at most one row is flagged, none when history is empty.
C14_EffectiveStatus ==
    PopReturned =>
        /\ Ids(Fetched) = Eligible
        /\ \A i \in 1..Len(Fetched) :
              LET u == Fetched[i][1]
              IN  /\ Fetched[i][5] = -1 <=> LatestUnanswered(u)
                  /\ ~LatestUnanswered(u) => Fetched[i][5] = user[u].status
        /\ Cardinality({i \in 1..Len(Fetched) : Fetched[i][5] = -1}) <= 1
        /\ history = <<>> => \A i \in 1..Len(Fetched) : Fetched[i][5] /= -1

\* C14 witness: two history records of different reviewers, a row of current
\* starting exactly at the end of the later one and a row with an empty
\* reviewerid starting after it; the later record's reviewer is fetched
\* flagged and the earlier one's with its stored status
C14_Witness ==
    /\ PopReturned
    /\ Len(history) = 2
    /\ history[1].reviewerid /= history[2].reviewerid
    /\ \E c \in current : c.reviewerid /= "" /\ c.start = history[2].end
    /\ \E c \in current : c.reviewerid = "" /\ c.start > history[2].end
    /\ \E i, j \in 1..Len(Fetched) :
          /\ Fetched[i][1] = history[2].reviewerid /\ Fetched[i][5] = -1
          /\ Fetched[j][1] = history[1].reviewerid /\ Fetched[j][5] = user[Fetched[j][1]].status

\* C17 (backlog differential): when the eligible pool is not empty, the
\* pages_diff of every fetched reviewer is its pages minus the least pages
\* among the eligible reviewers alone, so it is >= 0 for every fetched and
\* every returned reviewer and 0 for at least one eligible reviewer.
C17_BacklogDifferential ==
    (PopReturned /\ Eligible /= {}) =>
        LET least == Min({user[v].pages : v \in Eligible})
        IN  /\ \A i \in 1..Len(Fetched) :
                  /\ Fetched[i][6] = user[Fetched[i][1]].pages - least
                  /\ Fetched[i][6] >= 0
            /\ \A i \in 1..Len(ret) : ret[i][6] >= 0
            /\ \E i \in 1..Len(Fetched) : Fetched[i][6] = 0

\* C17 witness: a user that is not eligible has fewer pages than each of two
\* eligible reviewers, and the one among these with the least pages, itself
\* above zero, is fetched with pages_diff 0
C17_Witness ==
    /\ PopReturned
    /\ Cardinality(Eligible) >= 2
    /\ \E w \in Users \ Eligible : \A v \in Eligible : user[w].pages < user[v].pages
    /\ \E i \in 1..Len(Fetched) : Fetched[i][6] = 0 /\ user[Fetched[i][1]].pages > 0

\* the rows of s whose reviewer is not excluded and has effective status st,
\* in the order of s
Group(s, st) ==
    SelectSeq(s, LAMBDA item : item[1] \notin args.excludes.val
                               /\ EffectiveStatus(item[1]) = st)

\* C20 (urgency and hiding commute): on the rows left by the exclusion,
\* reordering idle-first and then keeping effective status 0 and 1 gives the
\* list that keeping first and reordering second gives, under every setting
\* of the two flags; so with urgent and hide_busy the result is the surviving
\* idle reviewers in snapshot order, then the surviving busy ones in snapshot
\* order, cut to count; a flagged reviewer with stored status 0 is never in
\* the idle group, and without hide_busy it comes after every idle reviewer.
C20_StagesCommute ==
    PopReturned =>
        /\ \A urgent, hide_busy \in Bools :
              HideBusy(Urgency(AfterExclusion, urgent), hide_busy)
                 = Urgency(HideBusy(AfterExclusion, hide_busy), urgent)
        /\ AfterHiding = Urgency(HideBusy(AfterExclusion, args.hide_busy), args.urgent)
        /\ (args.urgent /\ args.hide_busy) =>
              /\ AfterHiding = Group(Fetched, 0) \o Group(Fetched, 1)
              /\ args.count.val >= 0 =>
                    ret = SubSeq(AfterHiding, 1, Min({args.count.val, Len(AfterHiding)}))
        /\ args.urgent =>
              \A i \in 1..Len(AfterHiding) :
                 LET u == AfterHiding[i][1]
                 IN  (user[u].status = 0 /\ LatestUnanswered(u)) =>
                        /\ ~args.hide_busy
                        /\ i > Len(Group(Fetched, 0))
                        /\ \A j \in 1..Len(AfterHiding) :
                              EffectiveStatus(AfterHiding[j][1]) = 0 => j < i

\* C20 witness: with urgent and hide_busy, a busy reviewer fetched ahead of an
\* idle one was moved behind it, and a flagged reviewer with stored status 0,
\* not excluded, was hidden; the idle and the busy one are returned
C20_Witness ==
    /\ PopReturned /\ args.urgent /\ args.hide_busy
    /\ AfterUrgency /= AfterExclusion
    /\ AfterHiding /= AfterUrgency
    /\ \E u \in Eligible \ args.excludes.val : user[u].status = 0 /\ LatestUnanswered(u)
    /\ Len(ret) = 2
    /\ ret[1][5] = 0 /\ ret[2][5] = 1

\* C20 witness, hiding off: the flagged reviewer with stored status 0 was
\* fetched first and is returned after an idle reviewer
C20_WitnessNoHiding ==
    /\ PopReturned /\ args.urgent /\ ~args.hide_busy
    /\ Len(Fetched) >= 2 /\ Len(ret) >= 2
    /\ user[Fetched[1][1]].status = 0 /\ LatestUnanswered(Fetched[1][1])
    /\ Fetched[1][1] \notin args.excludes.val
    /\ ret[1][5] = 0 /\ ret[2][1] = Fetched[1][1]

\* the pool of the worked examples: A with no report, pages_diff 0, idle;
\* B with no report, pages_diff 2, idle; C with one report, pages_diff 0, busy
ExamplePool(A, B, C) ==
    /\ Eligible = {A, B, C}
    /\ Cardinality({A, B, C}) = 3
    /\ CurrentCount(A) = 0 /\ BacklogDiff(A) = 0 /\ user[A].status = 0
    /\ CurrentCount(B) = 0 /\ BacklogDiff(B) = 2 /\ user[B].status = 0
    /\ CurrentCount(C) = 1 /\ BacklogDiff(C) = 0 /\ user[C].status = 1

\* the call pop(2, [], urgent = False, hide_busy = h) returned
ExampleCall(h) ==
    /\ PopReturned
    /\ args.count.val = 2 /\ args.excludes.val = {}
    /\ ~args.urgent /\ args.hide_busy = h

\* C13 (worked examples): on the pool A, B, C, pop(2, [], urgent = False)
\* returns [A, B] when nobody is flagged, with either hide_busy; when A is
\* the flagged reviewer it returns [B, C] with hide_busy and [A, B] without.
C13_WorkedExamples ==
    \A A, B, C \in Users :
        ExamplePool(A, B, C) =>
            /\ (\E h \in Bools : ExampleCall(h)) /\ ~(\E u \in Users : LatestUnanswered(u))
                  => Ids(ret) = {A, B} /\ Len(ret) = 2 /\ ret[1][1] = A /\ ret[2][1] = B
            /\ (ExampleCall(TRUE) /\ LatestUnanswered(A))
                  => Len(ret) = 2 /\ ret[1][1] = B /\ ret[2][1] = C
            /\ (ExampleCall(FALSE) /\ LatestUnanswered(A))
                  => Len(ret) = 2 /\ ret[1][1] = A /\ ret[2][1] = B

\* C13 witness: on the pool of the examples with A flagged, the call with
\* hide_busy returned [B, C]
C13_Witness ==
    \E A, B, C \in Users :
        /\ ExamplePool(A, B, C)
        /\ ExampleCall(TRUE) /\ LatestUnanswered(A)
        /\ Len(ret) = 2 /\ ret[1][1] = B /\ ret[2][1] = C

\* C13 witnesses of the two other examples
C13_WitnessPlain ==
    \E A, B, C \in Users :
        /\ ExamplePool(A, B, C)
        /\ ExampleCall(TRUE) /\ history = <<>>
        /\ Len(ret) = 2 /\ ret[1][1] = A /\ ret[2][1] = B
C13_WitnessNoHiding ==
    \E A, B, C \in Users :
        /\ ExamplePool(A, B, C)
        /\ ExampleCall(FALSE) /\ LatestUnanswered(A)
        /\ Len(ret) = 2 /\ ret[1][1] = A /\ ret[2][1] = B

\* a step that is a call of the named operation (the clock does not move)
Called(name) == op' = name /\ now' = now

\* C15 (status domain, no automatic promotion): every stored status is 0, 1
\* or 2 after any sequence of calls, failing or not; a step that changes a
\* user's status to 1 or 2 is a set_status call that did not raise and names
\* that user; pop changes no status and reset_status only changes a status
\* to 0.
C15_StatusDomain ==
    /\ [](\A u \in Users : user[u].status \in {0, 1, 2})
    /\ [][\A u \in Users :
             /\ (user'[u].status /= user[u].status /\ user'[u].status \in {1, 2})
                   => (Called("set_status") /\ ~raised' /\ args'.user_id = u
                         /\ args'.status = user'[u].status)
             /\ Called("pop") => user'[u].status = user[u].status
             /\ (Called("reset_status") /\ user'[u].status /= user[u].status)
                   => user'[u].status = 0
             /\ (Called("set_status") /\ raised') => user'[u] = user[u]]_vars

\* C15 witness: after the clock advanced, a set_status moved a user to status
\* 2, while another user is idle since a sweep reset it
C15_Witness ==
    /\ op = "set_status" /\ ~raised
    /\ args.status = 2
    /\ user[args.user_id].status = 2
    /\ user[args.user_id].status_since = now
    /\ now > 0
    /\ \E u \in Users \ {args.user_id} : user[u].status = 0 /\ user[u].status_since > 0

\* C18 (invalid status): a set_status whose status is not 0, 1 or 2 raises
\* and changes no row of user, whether user_id is the id of an available
\* user, of an unavailable one, or of none.
C18_InvalidStatusRejected ==
    [][(Called("set_status") /\ args'.status \notin {0, 1, 2})
          => (raised' /\ updated' = {} /\ user' = user
                /\ UNCHANGED <<current, history>>)]_vars

\* C18 witness: set_status with status 3 raised for an available user whose
\* status is not idle
C18_Witness ==
    /\ op = "set_status" /\ raised /\ updated = {}
    /\ args.status = 3
    /\ contains(args.user_id, FALSE)
    /\ user[args.user_id].status /= 0

\* C18 witness, the id resolving to no user and the status below the range
C18_WitnessUnknown ==
    /\ op = "set_status" /\ raised /\ updated = {}
    /\ args.status = -1
    /\ args.user_id = UnknownId

\* C19 (frame effect of set_status): a set_status that does not raise leaves
\* the named user with the status asked for and status_since = NOW(), also
\* when the status asked for is the one it had, and changes no other field
\* of that user and no other row; the threshold of reset_status is then
\* counted from that moment.
C19_SetStatusEffect ==
    [][(Called("set_status") /\ ~raised') =>
          LET r == args'.user_id
          IN  /\ r \in Users
              /\ user'[r].status = args'.status
              /\ user'[r].status_since = now
              /\ user'[r].available = user[r].available
              /\ user'[r].role = user[r].role
              /\ user'[r].pages = user[r].pages
              /\ updated' = {r}
              /\ \A u \in Users \ {r} : user'[u] = user[u]
              /\ \A d \in DaysInputs :
                    d >= 1 => ~(user'[r].status /= 0
                                  /\ CalendarDays(now', user'[r].status_since) >= d)
              /\ UNCHANGED <<current, history>>]_vars

\* C19 witness: on a later day, set_status re-issued the status 1 a user had
\* since tick 0 and re-stamped it, while another user still busy since tick 0
\* was left as it was
C19_Witness ==
    /\ op = "set_status" /\ ~raised
    /\ args.status = 1
    /\ now >= TicksPerDay
    /\ user[args.user_id].status = 1
    /\ user[args.user_id].status_since = now
    /\ last.op = "set_status" /\ last.args = args /\ last.at = now /\ last.was = 1
    /\ \E v \in Users \ {args.user_id} : user[v].status /= 0 /\ user[v].status_since = 0

\* a step that makes again the call made before it, of set_status or of
\* reset_status, with the same arguments and no other call in between
Repeats(name) == Called(name) /\ last.op = name /\ last.args = args'

\* C12 as claimed (idempotence): set_status(r, s) made twice in succession,
\* and reset_status(days) made twice in succession, leave the status and
\* status_since of every user as the first call left them, and reset_status
\* does not raise.
C12_Idempotent ==
    [][(Repeats("set_status") \/ Repeats("reset_status")) =>
          /\ \A u \in Users :
                /\ user'[u].status = user[u].status
                /\ user'[u].status_since = user[u].status_since
          /\ op' = "reset_status" => ~raised']_vars

\* C12 as amended: a repeated set_status changes no status and no
\* status_since but the status_since of its user, which becomes NOW(); a
\* repeated reset_status changes no row that is idle and resets only rows
\* that have become stale; either leaves user as it was when NOW() is what
\* the first call read (for reset_status: on the same calendar day);
\* reset_status never raises, and set_status does not raise when the user is
\* available and the status in range, whether or not anything changes.
C12_IdempotentAtSameClock ==
    [][/\ Repeats("set_status") =>
             /\ \A u \in Users :
                   /\ user'[u].status = user[u].status
                   /\ u /= args'.user_id => user'[u] = user[u]
             /\ ~raised' =>
                   /\ user[args'.user_id].status = args'.status
                   /\ user'[args'.user_id].status_since = now
             /\ raised' => user' = user
             /\ (contains(args'.user_id, FALSE) /\ args'.status \in {0, 1, 2}) => ~raised'
             /\ now = last.at => user' = user
       /\ Repeats("reset_status") =>
             /\ ~raised'
             /\ \A u \in Users :
                   /\ user[u].status = 0 => user'[u] = user[u]
                   /\ user'[u] /= user[u] =>
                         /\ user'[u].status = 0 /\ user'[u].status_since = now
                         /\ CalendarDays(now, user[u].status_since) >= args'.days
                         /\ CalendarDays(last.at, user[u].status_since) < args'.days
             /\ CalendarDays(now, last.at) = 0 => (user' = user /\ updated' = {})]_vars

\* C12 witness: a set_status that did not raise was made again after the
\* clock advanced: the status is the one the user had and status_since is
\* the new NOW()
C12_Witness ==
    /\ op = "set_status" /\ ~raised
    /\ last.again > 0
    /\ last.was = args.status
    /\ args.status /= 0
    /\ user[args.user_id].status = args.status
    /\ user[args.user_id].status_since = now

\* C12 witness, reset_status: the sweep made again on the same day matched
\* no row, a user being idle since the first sweep and another still busy
C12_WitnessReset ==
    /\ op = "reset_status" /\ ~raised
    /\ last.again = 0
    /\ updated = {}
    /\ args.days >= 1
    /\ \E u \in Users : user[u].status = 0 /\ user[u].status_since = now /\ now > 0
    /\ \E v \in Users : user[v].status /= 0

\* C12 witness, reset_status on a later day: the sweep made again reset a
\* user the first sweep had left busy
C12_WitnessResetLater ==
    /\ op = "reset_status" /\ ~raised
    /\ last.again > 0
    /\ updated /= {}
    /\ args.days >= 1

\* the last calendar day the clock reaches
LastDay == MaxTime \div TicksPerDay

\* the status_since of u leaves SweepDays calendar days before the clock stops
Expirable(u) == (user[u].status_since \div TicksPerDay) + SweepDays <= LastDay

\* C16 (lease expiry): while reset_status(SweepDays) keeps being run and the
\* clock advances, a user that is not idle, with a status_since that leaves
\* SweepDays calendar days before the clock stops, eventually is idle unless
\* a set_status stamps it anew too late for that; and no reset_status(days)
\* step resets a user
\* that is not idle while fewer than `days` calendar days lie between its
\* status_since and NOW().
C16_LeaseExpiry ==
    /\ \A u \in Users :
          (user[u].status /= 0 /\ Expirable(u))
            ~> (user[u].status = 0 \/ ~Expirable(u))
    /\ [][Called("reset_status") =>
             \A u \in Users :
                (user[u].status /= 0
                   /\ CalendarDays(now, user[u].status_since) < args'.days)
                  => (user'[u] = user[u] /\ u \notin updated')]_vars

\* C16 witness: the sweep reset a user that no set_status had touched since
\* tick 0, on the first day its lease was over, and left alone a user made
\* busy since
C16_Witness ==
    /\ op = "reset_status"
    /\ args.days = SweepDays
    /\ now \div TicksPerDay = SweepDays
    /\ \E u \in updated : user[u].status = 0 /\ user[u].status_since = now
    /\ \E v \in Users \ updated :
          /\ user[v].status /= 0
          /\ user[v].status_since > 0
          /\ CalendarDays(now, user[v].status_since) < SweepDays

\* both callers hold a pick and neither has recorded its assignment
BothPicked == \A c \in Callers : picks[c].pc = "picked"

\* the rows of current recorded by the callers for reviewer u
Booked(u) == {r \in current : r.reviewerid = u /\ r.report \in Callers}

\* C11 (double booking): pop records nothing, so when both callers have
\* called pop before either assignment is in current they were ranked on the
\* same tables: with the same arguments and no two reviewers of equal
\* (current, pages_diff) both hold the same first reviewer, and nothing stops
\* either from recording its assignment to that reviewer.
C11_DoubleBooking ==
    /\ [](BothPicked =>
            /\ \A c \in Callers : picks[c].top \in Eligible
            /\ (picks[1].args = picks[2].args /\ NoTies) => picks[1].top = picks[2].top)
    /\ [][\A c \in Callers :
             (picks[c].pc = "idle" /\ picks'[c].pc /= "idle")
                => (Called("pop") /\ UNCHANGED <<user, current, history>>)]_vars
    /\ [][\A c \in Callers :
             (picks[c].pc = "picked" /\ picks'[c].pc = "assigned")
                => Cardinality(Booked(picks[c].top)') = Cardinality(Booked(picks[c].top)) + 1]_vars

\* C11 witness: both callers called pop before either assignment, out of a
\* pool without ties, and both assignments are recorded for the same reviewer
C11_Witness ==
    /\ \A c \in Callers : picks[c].pc = "assigned"
    /\ picks[1].top = picks[2].top
    /\ picks[1].top /= NoPick
    /\ Cardinality(Booked(picks[1].top)) = 2
    /\ Cardinality(Eligible) = 3
    /\ \A u, v \in Eligible :
          u /= v => (user[u].pages /= user[v].pages
                       \/ Cardinality({r \in current : r.reviewerid = u /\ r.report = NoCaller})
                            /= Cardinality({r \in current : r.reviewerid = v /\ r.report = NoCaller}))

====
